---------------------------- MODULE Spec2Model ----------------------------
(***************************************************************************)
(* Model of the EDA text augmentation engine (code/eda.py).                *)
(*                                                                         *)
(* A string is a sequence of characters; a character is a one-symbol TLA+  *)
(* string ("a", " ", "-"), or a name for a character that has no printable *)
(* ASCII form ("tab", "nl", and "acirc" "euro" "tm" for the three          *)
(* characters of the corrupted apostrophe of eda.py line 36).  A token     *)
(* list is a sequence of strings.  Fractions (alphas, probabilities,       *)
(* num_aug, draws of random.uniform) are integers in units of 1/Scale.     *)
(* Every call of the random module is a nondeterministic choice.           *)
(***************************************************************************)
EXTENDS Integers, Sequences, FiniteSets

VARIABLES
    fn,                    \* the function called from outside
    pc,                    \* position in the code
    line,                  \* get_only_chars: argument
    sentence, num_aug, alpha, randomize,   \* eda: arguments
    words, n, probability, \* perturbation operators: arguments
    new_words, i, counter, random_idx_1, random_idx_2, synonyms,
    random_word_list, num_replaced,
    flags, num_new_per_technique, remainder, position,
    augmented_sentences, technique, k,
    result                 \* value returned to the outside caller

vars == <<fn, pc, line, sentence, num_aug, alpha, randomize, words, n,
          probability, new_words, i, counter, random_idx_1, random_idx_2,
          synonyms, random_word_list, num_replaced, flags,
          num_new_per_technique, remainder, position, augmented_sentences,
          technique, k, result>>

---------------------------------------------------------------------------
(* Bounds of the model *)

MaxLineLen == 4
MaxWords == 3
MaxN == 2
MaxNumAug == 5
Scale == 4

(* Program constants *)

num_methods == 4
MaxLookups == 10
MaxDraws == 3

---------------------------------------------------------------------------
(* Characters and strings *)

LowerLetters == {"a", "b", "c", "s"}

VALID_CHARS == LowerLetters \cup {" "}

BadApostrophe == <<"acirc", "euro", "tm">>

Lower(char) ==
    CASE char = "A" -> "a"
      [] char = "B" -> "b"
      [] char = "C" -> "c"
      [] OTHER -> char

RECURSIVE Replace(_, _, _)
Replace(s, old, new) ==
    IF Len(s) < Len(old) THEN s
    ELSE IF SubSeq(s, 1, Len(old)) = old
         THEN new \o Replace(SubSeq(s, Len(old) + 1, Len(s)), old, new)
         ELSE <<Head(s)>> \o Replace(Tail(s), old, new)

RECURSIVE CollapseSpaces(_)
CollapseSpaces(s) ==
    IF Len(s) < 2 THEN s
    ELSE IF s[1] = " " /\ s[2] = " " THEN CollapseSpaces(Tail(s))
         ELSE <<Head(s)>> \o CollapseSpaces(Tail(s))

RECURSIVE LStrip(_)
LStrip(s) == IF s # <<>> /\ Head(s) = " " THEN LStrip(Tail(s)) ELSE s

RECURSIVE RStrip(_)
RStrip(s) ==
    IF s # <<>> /\ s[Len(s)] = " " THEN RStrip(SubSeq(s, 1, Len(s) - 1)) ELSE s


\* Variant: only the leading spaces are removed (lstrip for strip)
StripLeadingOnly(s) == LStrip(s)

Strip(s) == RStrip(LStrip(s))

get_only_chars(ln) ==
    LET r1 == Replace(ln, BadApostrophe, <<>>)
        r2 == Replace(r1, <<"'">>, <<>>)
        r3 == Replace(r2, <<"-">>, <<" ">>)
        r4 == Replace(r3, <<"tab">>, <<" ">>)
        r5 == Replace(r4, <<"nl">>, <<" ">>)
        lowered == [x \in 1..Len(r5) |-> Lower(r5[x])]
        clean_line == [x \in 1..Len(lowered) |->
                          IF lowered[x] \in VALID_CHARS THEN lowered[x] ELSE " "]
    IN  Strip(CollapseSpaces(clean_line))

RECURSIVE Join(_)
Join(tokens) ==
    IF tokens = <<>> THEN <<>>
    ELSE IF Len(tokens) = 1 THEN tokens[1]
         ELSE tokens[1] \o <<" ">> \o Join(Tail(tokens))

RECURSIVE SplitFrom(_, _)
SplitFrom(s, cur) ==
    IF s = <<>> THEN <<cur>>
    ELSE IF Head(s) = " " THEN <<cur>> \o SplitFrom(Tail(s), <<>>)
         ELSE SplitFrom(Tail(s), Append(cur, Head(s)))

Split(s) == SplitFrom(s, <<>>)

NonEmptyTokens(tokens) == SelectSeq(tokens, LAMBDA word : word # <<>>)

---------------------------------------------------------------------------
(* Lexical resource: the lemma names wordnet holds for a word, and the     *)
(* stop words of the language.  Both are data outside the program; the     *)
(* table below is a small lexicon with a word that has a one-word and a    *)
(* two-word synonym, a word whose only lemma is itself, and a stop word.   *)

Tokens == {<<"a">>, <<"b">>, <<"c">>, <<"s">>}

WordnetLemmas(word) ==
    CASE word = <<"a">> -> {<<"a">>, <<"B">>, <<"b", "_", "c">>}
      [] word = <<"b">> -> {<<"b">>, <<"c">>}
      [] word = <<"c">> -> {<<"C">>}
      [] word = <<"s">> -> {<<"a">>}
      [] OTHER -> {}

stop_words == {<<"s">>}

get_synonyms(word) ==
    LET Clean(lemma) ==
            LET r1 == Replace(lemma, <<"_">>, <<" ">>)
                r2 == Replace(r1, <<"-">>, <<" ">>)
                lowered == [x \in 1..Len(r2) |-> Lower(r2[x])]
            IN  SelectSeq(lowered, LAMBDA char : char \in VALID_CHARS)
    IN  {Clean(lemma) : lemma \in WordnetLemmas(word)} \ {word}

---------------------------------------------------------------------------
(* Helpers of the perturbation operators *)

Range(seq) == {seq[x] : x \in 1..Len(seq)}

Orderings(S) ==
    {order \in [1..Cardinality(S) -> S] : Range(order) = S}

Shuffles(seq) ==
    {[x \in 1..Len(seq) |-> seq[p[x]]] : p \in Orderings(1..Len(seq))}


\* Variant: the stop words are not filtered out of the candidates
CandidatesWithStopWords(tokens) == Range(tokens)

Candidates(tokens) == {word \in Range(tokens) : word \notin stop_words}

Substitute(tokens, random_word, synonym) ==
    [x \in 1..Len(tokens) |->
        IF tokens[x] = random_word THEN synonym ELSE tokens[x]]

\* the list comprehension of random_deletion: us are the draws of random.uniform
RECURSIVE KeepWords(_, _, _)
KeepWords(tokens, us, p) ==
    IF tokens = <<>> THEN <<>>
    ELSE (IF Head(us) > p THEN <<Head(tokens)>> ELSE <<>>)
         \o KeepWords(Tail(tokens), Tail(us), p)


\* Variant: no fallback when every word is deleted
random_deletion_no_fallback(tokens, p, us, rand_int) ==
    IF Len(tokens) = 1 THEN tokens ELSE KeepWords(tokens, us, p)

\* random_deletion, given the draws of random.uniform and of random.randint
random_deletion(tokens, p, us, rand_int) ==
    IF Len(tokens) = 1 THEN tokens
    ELSE LET kept_words == KeepWords(tokens, us, p)
         IN  IF Len(kept_words) = 0 THEN <<tokens[rand_int + 1]>>
             ELSE kept_words

\* indices are the values of Python's random.randint(0, len - 1)
Positions(tokens) == 0..(Len(tokens) - 1)


\* Variant: the two assignments are made one after the other
SwapSequentially(tokens, idx_1, idx_2) ==
    LET first == [tokens EXCEPT ![idx_1 + 1] = tokens[idx_2 + 1]]
    IN  [first EXCEPT ![idx_2 + 1] = first[idx_1 + 1]]

Swap(tokens, idx_1, idx_2) ==
    [tokens EXCEPT ![idx_1 + 1] = tokens[idx_2 + 1],
                   ![idx_2 + 1] = tokens[idx_1 + 1]]


\* Variant: the index may also be len(new_words), which appends
InsertPositionsWithEnd(tokens) == 0..Len(tokens)

InsertPositions(tokens) == 0..(Len(tokens) - 1)

Insert(tokens, idx, word) ==
    SubSeq(tokens, 1, idx) \o <<word>> \o SubSeq(tokens, idx + 1, Len(tokens))

\* int(num_aug / num_methods) and math.ceil(num_aug % num_methods)
BaseCount(q) == q \div (num_methods * Scale)

Remainder(q) == ((q % (num_methods * Scale)) + Scale - 1) \div Scale


\* Variant: the flag of the drawn technique is not looked at
FlagIgnored(fl, pos) == TRUE

FlagSet(fl, pos) == fl[pos + 1] # 0

\* max(1, int(alpha * num_words))
NumToChange(a, num_words) ==
    LET m == (a * num_words) \div Scale IN IF m > 1 THEN m ELSE 1

---------------------------------------------------------------------------
(* Inputs *)

Functions == {"get_only_chars", "synonym_replacement", "random_deletion",
              "random_swap", "random_insertion", "get_num_per_technique",
              "eda"}

Operators == {"synonym_replacement", "random_deletion", "random_swap",
              "random_insertion"}

LineChars == {"a", "A", " ", "-", "'", "tab", "nl", "acirc", "euro", "tm"}

Lines == UNION {[1..m -> LineChars] : m \in 0..MaxLineLen}

WordLists == UNION {[1..m -> Tokens] : m \in 1..MaxWords}

Uniforms == 0..(Scale - 1)        \* random.uniform(0, 1) lies in [0, 1)

Probabilities == 0..Scale

NumAugs == 1..(MaxNumAug * Scale)

FlagLists == [1..num_methods -> {0, 1}] \cup {<<>>}

EdaSentences == {<<>>, <<"tab">>, <<"A">>, <<"A", "-", "c">>}

EdaNumAugs == {Scale \div 2, Scale, (3 * Scale) \div 2, 2 * Scale, 4 * Scale}

EdaAlphas == [1..num_methods -> {0, Scale \div 2}]

Init ==
    /\ fn \in Functions
    /\ pc = fn
    /\ line \in (IF fn = "get_only_chars" THEN Lines ELSE {<<>>})
    /\ sentence \in (IF fn = "eda" THEN EdaSentences ELSE {<<>>})
    /\ num_aug \in (CASE fn = "eda" -> EdaNumAugs
                      [] fn = "get_num_per_technique" -> NumAugs
                      [] OTHER -> {0})
    /\ alpha \in (IF fn = "eda" THEN EdaAlphas ELSE {<<0, 0, 0, 0>>})
    /\ randomize \in (IF fn = "eda" THEN BOOLEAN ELSE {FALSE})
    /\ words \in (IF fn \in Operators THEN WordLists ELSE {<<>>})
    /\ n \in (IF fn \in Operators \ {"random_deletion"} THEN 0..MaxN ELSE {0})
    /\ probability \in (IF fn = "random_deletion" THEN Probabilities ELSE {0})
    /\ flags \in (IF fn = "get_num_per_technique" THEN FlagLists ELSE {<<>>})
    /\ new_words = <<>>
    /\ i = 0
    /\ counter = 0
    /\ random_idx_1 = 0
    /\ random_idx_2 = 0
    /\ synonyms = {}
    /\ random_word_list = <<>>
    /\ num_replaced = 0
    /\ num_new_per_technique = <<>>
    /\ remainder = 0
    /\ position = 0
    /\ augmented_sentences = <<>>
    /\ technique = 0
    /\ k = 0
    /\ result = <<>>

inputs == <<fn, line, sentence, num_aug, alpha, randomize>>
opArgs == <<words, n, probability>>
drawVars == <<counter, random_idx_1, random_idx_2, synonyms>>
srVars == <<random_word_list, num_replaced>>
allocVars == <<flags, num_new_per_technique, remainder, position>>

\* A perturbation operator returns val: to eda, which joins the tokens and
\* appends the sentence (lines 333, 340, 347, 353), or to the outside caller.
Return(val) ==
    /\ IF fn = "eda"
       THEN /\ pc' = "eda_gen"
            /\ augmented_sentences' = Append(augmented_sentences, Join(val))
            /\ k' = k + 1
            /\ result' = result
       ELSE /\ pc' = "done"
            /\ result' = val
            /\ UNCHANGED <<augmented_sentences, k>>
    /\ UNCHANGED technique

---------------------------------------------------------------------------
(* get_only_chars *)

GetOnlyChars ==
    /\ pc = "get_only_chars"
    /\ result' = get_only_chars(line)
    /\ pc' = "done"
    /\ UNCHANGED <<inputs, opArgs, new_words, i, drawVars, srVars, allocVars,
                   augmented_sentences, technique, k>>

---------------------------------------------------------------------------
(* synonym_replacement *)

SynonymReplacement ==
    /\ pc = "synonym_replacement"
    /\ new_words' = words
    /\ random_word_list' \in Orderings(Candidates(words))
    /\ num_replaced' = 0
    /\ pc' = IF random_word_list' = <<>> THEN "sr_join" ELSE "sr_loop"
    /\ UNCHANGED <<inputs, opArgs, i, drawVars, allocVars,
                   augmented_sentences, technique, k, result>>

SynonymReplacementIter ==
    /\ pc = "sr_loop"
    /\ LET random_word == Head(random_word_list)
           syns == get_synonyms(random_word)
       IN  IF Cardinality(syns) >= 1
           THEN /\ \E synonym \in syns :
                      new_words' = Substitute(new_words, random_word, synonym)
                /\ num_replaced' = num_replaced + 1
           ELSE UNCHANGED <<new_words, num_replaced>>
    /\ random_word_list' = Tail(random_word_list)
    /\ pc' = IF num_replaced' >= n \/ random_word_list' = <<>>
             THEN "sr_join" ELSE "sr_loop"
    /\ UNCHANGED <<inputs, opArgs, i, drawVars, allocVars,
                   augmented_sentences, technique, k, result>>

SynonymReplacementJoin ==
    /\ pc = "sr_join"
    /\ Return(Split(Join(new_words)))
    /\ new_words' = <<>>
    /\ random_word_list' = <<>>
    /\ num_replaced' = 0
    /\ UNCHANGED <<inputs, opArgs, i, drawVars, allocVars>>

---------------------------------------------------------------------------
(* random_deletion *)

RandomDeletion ==
    /\ pc = "random_deletion"
    /\ \E us \in [1..Len(words) -> Uniforms], rand_int \in Positions(words) :
           Return(random_deletion(words, probability, us, rand_int))
    /\ UNCHANGED <<inputs, opArgs, new_words, i, drawVars, srVars, allocVars>>

---------------------------------------------------------------------------
(* random_swap, swap_word *)

RandomSwap ==
    /\ pc = "random_swap"
    /\ new_words' = words
    /\ i' = 0
    /\ pc' = "rs_loop"
    /\ UNCHANGED <<inputs, opArgs, drawVars, srVars, allocVars,
                   augmented_sentences, technique, k, result>>

SwapWord ==
    /\ pc = "rs_loop"
    /\ i < n
    /\ i' = i + 1
    /\ \E r \in Positions(new_words) :
           /\ random_idx_1' = r
           /\ random_idx_2' = r
    /\ counter' = 0
    /\ pc' = "swap_word"
    /\ UNCHANGED <<inputs, opArgs, new_words, synonyms, srVars, allocVars,
                   augmented_sentences, technique, k, result>>

SwapWordDraw ==
    /\ pc = "swap_word"
    /\ random_idx_2' \in Positions(new_words)
    /\ counter' = counter + 1
    /\ pc' = IF counter' > MaxDraws THEN "swap_return"
             ELSE IF random_idx_2' = random_idx_1 THEN "swap_word"
             ELSE "swap_assign"
    /\ UNCHANGED <<inputs, opArgs, new_words, i, random_idx_1, synonyms,
                   srVars, allocVars, augmented_sentences, technique, k,
                   result>>

SwapWordGiveUp ==
    /\ pc = "swap_return"
    /\ pc' = "rs_loop"
    /\ counter' = 0
    /\ random_idx_1' = 0
    /\ random_idx_2' = 0
    /\ UNCHANGED <<inputs, opArgs, new_words, i, synonyms, srVars, allocVars,
                   augmented_sentences, technique, k, result>>

SwapWordAssign ==
    /\ pc = "swap_assign"
    /\ new_words' = Swap(new_words, random_idx_1, random_idx_2)
    /\ pc' = "rs_loop"
    /\ counter' = 0
    /\ random_idx_1' = 0
    /\ random_idx_2' = 0
    /\ UNCHANGED <<inputs, opArgs, i, synonyms, srVars, allocVars,
                   augmented_sentences, technique, k, result>>

RandomSwapReturn ==
    /\ pc = "rs_loop"
    /\ i >= n
    /\ Return(new_words)
    /\ new_words' = <<>>
    /\ i' = 0
    /\ UNCHANGED <<inputs, opArgs, drawVars, srVars, allocVars>>

---------------------------------------------------------------------------
(* random_insertion, add_word *)

RandomInsertion ==
    /\ pc = "random_insertion"
    /\ new_words' = words
    /\ i' = 0
    /\ pc' = "ri_loop"
    /\ UNCHANGED <<inputs, opArgs, drawVars, srVars, allocVars,
                   augmented_sentences, technique, k, result>>

AddWord ==
    /\ pc = "ri_loop"
    /\ i < n
    /\ i' = i + 1
    /\ synonyms' = {}
    /\ counter' = 0
    /\ pc' = "add_word"
    /\ UNCHANGED <<inputs, opArgs, new_words, random_idx_1, random_idx_2,
                   srVars, allocVars, augmented_sentences, technique, k,
                   result>>

AddWordLookup ==
    /\ pc = "add_word"
    /\ \E r \in Positions(new_words) :
           synonyms' = get_synonyms(new_words[r + 1])
    /\ counter' = counter + 1
    /\ pc' = IF counter' >= MaxLookups THEN "add_word_return"
             ELSE IF Cardinality(synonyms') < 1 THEN "add_word"
             ELSE "add_word_insert"
    /\ UNCHANGED <<inputs, opArgs, new_words, i, random_idx_1, random_idx_2,
                   srVars, allocVars, augmented_sentences, technique, k,
                   result>>

AddWordGiveUp ==
    /\ pc = "add_word_return"
    /\ pc' = "ri_loop"
    /\ counter' = 0
    /\ synonyms' = {}
    /\ UNCHANGED <<inputs, opArgs, new_words, i, random_idx_1, random_idx_2,
                   srVars, allocVars, augmented_sentences, technique, k,
                   result>>

AddWordInsert ==
    /\ pc = "add_word_insert"
    /\ \E random_synonym \in synonyms, random_idx \in InsertPositions(new_words) :
           new_words' = Insert(new_words, random_idx, random_synonym)
    /\ pc' = "ri_loop"
    /\ counter' = 0
    /\ synonyms' = {}
    /\ UNCHANGED <<inputs, opArgs, i, random_idx_1, random_idx_2, srVars,
                   allocVars, augmented_sentences, technique, k, result>>

RandomInsertionReturn ==
    /\ pc = "ri_loop"
    /\ i >= n
    /\ Return(new_words)
    /\ new_words' = <<>>
    /\ i' = 0
    /\ UNCHANGED <<inputs, opArgs, drawVars, srVars, allocVars>>

---------------------------------------------------------------------------
(* get_num_per_technique *)

GetNumPerTechnique ==
    /\ pc = "get_num_per_technique"
    /\ LET fl == IF flags = <<>> THEN [pos \in 1..num_methods |-> 1] ELSE flags
       IN  /\ flags' = fl
           /\ num_new_per_technique' =
                  [pos \in 1..num_methods |->
                      IF fl[pos] # 0 THEN BaseCount(num_aug) ELSE 0]
    /\ remainder' = Remainder(num_aug)
    /\ pc' = "gnpt_loop"
    /\ UNCHANGED <<inputs, opArgs, new_words, i, drawVars, srVars, position,
                   augmented_sentences, technique, k, result>>

\* one iteration of the remainder loop, random.randint having drawn pos
RemainderIter(pos) ==
    /\ pc = "gnpt_loop"
    /\ remainder > 0
    /\ position' = pos
    /\ IF FlagSet(flags, pos)
       THEN /\ num_new_per_technique' =
                   [num_new_per_technique EXCEPT ![pos + 1] = @ + 1]
            /\ remainder' = remainder - 1
       ELSE UNCHANGED <<num_new_per_technique, remainder>>
    /\ UNCHANGED <<inputs, opArgs, new_words, i, drawVars, srVars, flags,
                   augmented_sentences, technique, k, result, pc>>

RemainderLoop == \E pos \in 0..(num_methods - 1) : RemainderIter(pos)

\* the iterations in which the drawn technique is enabled
RemainderLoopHit ==
    \E pos \in 0..(num_methods - 1) :
        pc = "gnpt_loop" /\ FlagSet(flags, pos) /\ RemainderIter(pos)

GetNumPerTechniqueReturn ==
    /\ pc = "gnpt_loop"
    /\ remainder <= 0
    /\ IF fn = "eda"
       THEN /\ pc' = "eda_gen"
            /\ result' = result
       ELSE /\ pc' = "done"
            /\ result' = num_new_per_technique
    /\ UNCHANGED <<inputs, opArgs, new_words, i, drawVars, srVars, allocVars,
                   augmented_sentences, technique, k>>

---------------------------------------------------------------------------
(* eda *)

OperatorOf(t) ==
    CASE t = 0 -> "synonym_replacement"
      [] t = 1 -> "random_insertion"
      [] t = 2 -> "random_swap"
      [] t = 3 -> "random_deletion"


\* Variant: the original sentence is appended (the line commented out at 379)
ReturnValueAppended(s, augmented) == augmented \o <<s>>

\* [sentence] + augmented_sentences
ReturnValue(s, augmented) == <<s>> \o augmented

Eda ==
    /\ pc = "eda"
    /\ LET clean_sentence == get_only_chars(sentence)
           ws == NonEmptyTokens(Split(clean_sentence))
       IN  /\ words' = ws
           /\ IF Len(ws) = 0
              THEN /\ result' = <<sentence>>
                   /\ pc' = "done"
                   /\ flags' = flags
              ELSE /\ result' = result
                   /\ pc' = "get_num_per_technique"
                   /\ flags' = alpha
    /\ UNCHANGED <<inputs, n, probability, new_words, i, drawVars, srVars,
                   num_new_per_technique, remainder, position,
                   augmented_sentences, technique, k>>

\* one more sentence of the current technique: lines 331-332, 338-339,
\* 345-346, 351-352
EdaAugment ==
    /\ pc = "eda_gen"
    /\ technique < num_methods
    /\ alpha[technique + 1] > 0
    /\ k < num_new_per_technique[technique + 1]
    /\ pc' = OperatorOf(technique)
    /\ IF technique = 3
       THEN /\ probability' = alpha[technique + 1]
            /\ n' = n
       ELSE /\ n' = NumToChange(alpha[technique + 1], Len(words))
            /\ probability' = probability
    /\ UNCHANGED <<inputs, words, new_words, i, drawVars, srVars, allocVars,
                   augmented_sentences, technique, k, result>>

\* the technique is disabled or has produced its sentences
EdaNextTechnique ==
    /\ pc = "eda_gen"
    /\ technique < num_methods
    /\ ~(alpha[technique + 1] > 0 /\ k < num_new_per_technique[technique + 1])
    /\ technique' = technique + 1
    /\ k' = 0
    /\ UNCHANGED <<inputs, opArgs, new_words, i, drawVars, srVars, allocVars,
                   augmented_sentences, result, pc>>

EdaCleanUp ==
    /\ pc = "eda_gen"
    /\ technique = num_methods
    /\ augmented_sentences' =
           [x \in 1..Len(augmented_sentences) |->
               get_only_chars(augmented_sentences[x])]
    /\ pc' = "eda_shuffle"
    /\ UNCHANGED <<inputs, opArgs, new_words, i, drawVars, srVars, allocVars,
                   technique, k, result>>

EdaShuffle ==
    /\ pc = "eda_shuffle"
    /\ IF randomize
       THEN augmented_sentences' \in Shuffles(augmented_sentences)
       ELSE augmented_sentences' = augmented_sentences
    /\ pc' = "eda_trim"
    /\ UNCHANGED <<inputs, opArgs, new_words, i, drawVars, srVars, allocVars,
                   technique, k, result>>

\* the sentences kept by the sampling of lines 372-376, us the draws of
\* random.uniform: uniform < num_aug / len(augmented_sentences)
RECURSIVE Sample(_, _, _, _)
Sample(sentences, us, q, len) ==
    IF sentences = <<>> THEN <<>>
    ELSE (IF Head(us) * len < q THEN <<Head(sentences)>> ELSE <<>>)
         \o Sample(Tail(sentences), Tail(us), q, len)

EdaTrim ==
    /\ pc = "eda_trim"
    /\ IF num_aug >= Scale /\ Len(augmented_sentences) > num_aug \div Scale
       THEN /\ augmented_sentences' =
                   SubSeq(augmented_sentences, 1, num_aug \div Scale)
            /\ pc' = "eda_return"
       ELSE IF num_aug > 0
            THEN IF Len(augmented_sentences) = 0
                 THEN /\ pc' = "ZeroDivisionError"
                      /\ augmented_sentences' = augmented_sentences
                 ELSE /\ \E us \in [1..Len(augmented_sentences) -> Uniforms] :
                            augmented_sentences' =
                                Sample(augmented_sentences, us, num_aug,
                                       Len(augmented_sentences))
                      /\ pc' = "eda_return"
            ELSE /\ augmented_sentences' = augmented_sentences
                 /\ pc' = "eda_return"
    /\ UNCHANGED <<inputs, opArgs, new_words, i, drawVars, srVars, allocVars,
                   technique, k, result>>

EdaReturn ==
    /\ pc = "eda_return"
    /\ result' = ReturnValue(sentence, augmented_sentences)
    /\ pc' = "done"
    /\ UNCHANGED <<inputs, opArgs, new_words, i, drawVars, srVars, allocVars,
                   augmented_sentences, technique, k>>

---------------------------------------------------------------------------
(* Specifications *)

Next ==
    \/ GetOnlyChars
    \/ SynonymReplacement
    \/ SynonymReplacementIter
    \/ SynonymReplacementJoin
    \/ RandomDeletion
    \/ RandomSwap
    \/ SwapWord
    \/ SwapWordDraw
    \/ SwapWordGiveUp
    \/ SwapWordAssign
    \/ RandomSwapReturn
    \/ RandomInsertion
    \/ AddWord
    \/ AddWordLookup
    \/ AddWordGiveUp
    \/ AddWordInsert
    \/ RandomInsertionReturn
    \/ GetNumPerTechnique
    \/ RemainderLoop
    \/ GetNumPerTechniqueReturn
    \/ Eda
    \/ EdaAugment
    \/ EdaNextTechnique
    \/ EdaCleanUp
    \/ EdaShuffle
    \/ EdaTrim
    \/ EdaReturn

Spec == Init /\ [][Next]_vars

\* get_num_per_technique called on its own
InitAlloc == Init /\ fn = "get_num_per_technique"

NextAlloc ==
    \/ GetNumPerTechnique
    \/ RemainderLoop
    \/ GetNumPerTechniqueReturn

\* The program keeps running, and random.randint(0, 3) does not avoid the
\* enabled techniques forever.
FairSpec ==
    InitAlloc /\ [][NextAlloc]_vars /\ WF_vars(NextAlloc)
              /\ WF_vars(RemainderLoopHit)

---------------------------------------------------------------------------
(* Properties *)

RECURSIVE IsSubsequence(_, _)
IsSubsequence(sub, seq) ==
    IF sub = <<>> THEN TRUE
    ELSE IF seq = <<>> THEN FALSE
         ELSE IF Head(sub) = Head(seq) THEN IsSubsequence(Tail(sub), Tail(seq))
              ELSE IsSubsequence(sub, Tail(seq))

Count(seq, word) == Cardinality({x \in 1..Len(seq) : seq[x] = word})

IsPermutation(s, t) ==
    /\ Len(s) = Len(t)
    /\ \A word \in Range(s) \cup Range(t) : Count(s, word) = Count(t, word)

RECURSIVE Sum(_)
Sum(seq) == IF seq = <<>> THEN 0 ELSE Head(seq) + Sum(Tail(seq))

Min(a, b) == IF a < b THEN a ELSE b

\* C1: whenever eda returns, element 0 of the returned list is the input
\* sentence itself, not its normalized form: on the empty-token path, after
\* the shuffle, and after trimming or sampling.
C1_OriginalFirst ==
    (fn = "eda" /\ pc = "done") => (Len(result) >= 1 /\ result[1] = sentence)

\* C1 witness: a shuffled and trimmed result whose first element is a
\* sentence that normalization would change.
C1_Witness ==
    /\ fn = "eda" /\ pc = "done" /\ randomize
    /\ num_aug > Scale /\ num_aug % Scale # 0
    /\ Len(result) = 2
    /\ get_only_chars(sentence) # sentence
    /\ result[1] = sentence

\* C2: for an integer target_count >= 1 and flags with at least one enabled,
\* the four counts returned by get_num_per_technique sum to target_count.
C2_SumIsTargetCount ==
    (/\ fn = "get_num_per_technique" /\ pc = "done"
     /\ num_aug % Scale = 0
     /\ \E pos \in 1..num_methods : flags[pos] # 0)
    => Sum(result) = num_aug \div Scale

\* C3: eda called on a sentence with at least one token, with the four alphas
\* zero and target_count >= 1, does not fail, and returns only the original
\* sentence.
C3_AllZeroReturnsOriginal ==
    (/\ fn = "eda"
     /\ \A pos \in 1..num_methods : alpha[pos] = 0
     /\ num_aug >= Scale
     /\ NonEmptyTokens(Split(get_only_chars(sentence))) # <<>>)
    => /\ pc # "ZeroDivisionError"
       /\ pc = "done" => result = <<sentence>>

\* C4: a round of random_insertion leaves the sequence unchanged only if all
\* of its 10 lookups returned no synonyms: add_word returns without inserting
\* only when the last lookup, like those before it, found nothing.
C4_SkipOnlyIfNoSynonyms ==
    pc = "add_word_return" => Cardinality(synonyms) = 0

\* C5: random_swap keeps the length and the multiset of the tokens, the swap
\* statement is only reached with two distinct positions, and a 1-token
\* sequence is returned unchanged.
C5_SwapPermutes ==
    /\ pc \in {"rs_loop", "swap_word", "swap_return", "swap_assign"}
           => IsPermutation(new_words, words)
    /\ pc = "swap_assign"
           => /\ random_idx_1 # random_idx_2
              /\ {random_idx_1, random_idx_2} \subseteq 0..(Len(words) - 1)
    /\ (fn = "random_swap" /\ pc = "done")
           => /\ IsPermutation(result, words)
              /\ Len(words) = 1 => result = words

\* C5 witness: two swaps of a 3-token sequence returned another order.
C5_Witness ==
    /\ fn = "random_swap" /\ pc = "done"
    /\ n = 2 /\ Len(words) = 3
    /\ result # words

\* C6: random_deletion returns a non-empty subsequence of its input, in the
\* input's order; a 1-token sequence is returned unchanged for any
\* probability; and when every token is dropped the result is one token of
\* the input.
C6_DeletionKeepsOne ==
    /\ (fn = "random_deletion" /\ pc = "done")
           => /\ 1 <= Len(result) /\ Len(result) <= Len(words)
              /\ IsSubsequence(result, words)
              /\ Len(words) = 1 => result = words
    /\ (fn = "random_deletion" /\ pc = "random_deletion")
           => \A us \in [1..Len(words) -> Uniforms], rand_int \in 0..(Len(words) - 1) :
                  (Len(words) > 1 /\ \A x \in 1..Len(words) : ~(us[x] > probability))
                  => LET out == random_deletion(words, probability, us, rand_int)
                     IN  Len(out) = 1 /\ out[1] \in Range(words)

\* C6 witness: every token of a 3-token sequence was dropped and one token
\* came back.
C6_Witness ==
    /\ fn = "random_deletion" /\ pc = "done"
    /\ probability = Scale /\ Len(words) = 3
    /\ Len(result) = 1

IsNormalized(s) ==
    /\ \A x \in 1..Len(s) : s[x] \in VALID_CHARS
    /\ \A x \in 1..(Len(s) - 1) : ~(s[x] = " " /\ s[x + 1] = " ")
    /\ s # <<>> => (s[1] # " " /\ s[Len(s)] # " ")

\* C7: get_only_chars is idempotent: its output holds only a-z and single
\* spaces, with no space at either end, and such strings are fixed points.
C7_Idempotent ==
    (fn = "get_only_chars" /\ pc = "done")
    => /\ get_only_chars(result) = result
       /\ IsNormalized(result)
       /\ IsNormalized(line) => result = line

\* C7 witness: an input that normalization changes into two words.
C7_Witness ==
    /\ fn = "get_only_chars" /\ pc = "done"
    /\ result = <<"a", " ", "a">>
    /\ line # result

\* ceil(target_count mod 4), written without the model's Remainder
CeilMod(q) ==
    CHOOSE c \in 0..num_methods :
        /\ c * Scale >= q % (num_methods * Scale)
        /\ (c - 1) * Scale < q % (num_methods * Scale)

\* C8: with at least one flag enabled the remainder loop of
\* get_num_per_technique terminates under fair random choice; each iteration
\* either decrements the remainder and increments the count of one enabled
\* technique, or changes nothing; and on exit ceil(target_count mod 4)
\* increments have been applied, all to enabled techniques.
C8_RemainderLoopTerminates ==
    /\ [][(pc = "gnpt_loop" /\ pc' = "gnpt_loop")
            => \/ /\ remainder' = remainder - 1
                  /\ \E pos \in 1..num_methods :
                         /\ flags[pos] # 0
                         /\ num_new_per_technique' =
                                [num_new_per_technique EXCEPT ![pos] = @ + 1]
               \/ /\ remainder' = remainder
                  /\ num_new_per_technique' = num_new_per_technique]_vars
    /\ [](pc = "done"
            => LET base == [pos \in 1..num_methods |->
                               IF flags[pos] # 0
                               THEN num_aug \div (num_methods * Scale) ELSE 0]
                   added == [pos \in 1..num_methods |-> result[pos] - base[pos]]
               IN  /\ \A pos \in 1..num_methods :
                          /\ added[pos] >= 0
                          /\ flags[pos] = 0 => added[pos] = 0
                   /\ (\E pos \in 1..num_methods : flags[pos] # 0)
                          => Sum(added) = CeilMod(num_aug))
    /\ (pc = "get_num_per_technique"
           /\ (flags = <<>> \/ \E pos \in 1..Len(flags) : flags[pos] # 0))
       ~> (pc = "done")

\* C8 witness: a remainder of 3 was handed out with one technique disabled.
C8_Witness ==
    /\ fn = "get_num_per_technique" /\ pc = "done"
    /\ CeilMod(num_aug) = 3
    /\ Sum(result) = 3
    /\ \E pos \in 1..num_methods : flags[pos] = 0
    /\ \E pos \in 1..num_methods : flags[pos] # 0

\* the candidate words of the input that have a synonym
Replaceable(tokens) ==
    {word \in Range(tokens) : word \notin stop_words /\ get_synonyms(word) # {}}

\* C9: for n >= 1 synonym_replacement substitutes min(n, k) distinct candidate
\* words, k the number of distinct non-stop-word tokens of the input that have
\* a synonym; a substitution replaces every occurrence of the candidate in the
\* current sequence by one chosen synonym; no stop word is substituted.
C9_ReplacesMinNK ==
    /\ []((pc \in {"sr_loop", "sr_join"} /\ n >= 1)
            => /\ \A x, y \in 1..Len(random_word_list) :
                      x # y => random_word_list[x] # random_word_list[y]
               /\ num_replaced <= Min(n, Cardinality(Replaceable(words)))
               /\ pc = "sr_join"
                      => num_replaced = Min(n, Cardinality(Replaceable(words))))
    /\ [][(pc = "sr_loop" /\ n >= 1)
            => LET random_word == Head(random_word_list)
               IN  /\ random_word \notin stop_words
                   /\ \/ /\ get_synonyms(random_word) = {}
                         /\ new_words' = new_words
                         /\ num_replaced' = num_replaced
                      \/ /\ num_replaced' = num_replaced + 1
                         /\ \E synonym \in get_synonyms(random_word) :
                                new_words' =
                                    [x \in 1..Len(new_words) |->
                                        IF new_words[x] = random_word
                                        THEN synonym ELSE new_words[x]]
                   /\ \A x \in 1..Len(new_words) :
                          new_words[x] \in stop_words
                              => new_words'[x] = new_words[x]]_vars

\* C9 witness: two candidates were substituted in a sequence that also holds
\* a stop word.
C9_Witness ==
    /\ fn = "synonym_replacement" /\ pc = "sr_join"
    /\ n = 2 /\ num_replaced = 2
    /\ \E x \in 1..Len(words) : words[x] \in stop_words

\* C10: add_word never inserts after the last token: the last token of
\* random_insertion's output is the last token of its input, and the input
\* tokens appear in the output in their original order.
C10_LastTokenStays ==
    /\ pc \in {"ri_loop", "add_word", "add_word_return", "add_word_insert"}
           => /\ new_words[Len(new_words)] = words[Len(words)]
              /\ IsSubsequence(words, new_words)
    /\ (fn = "random_insertion" /\ pc = "done")
           => /\ result[Len(result)] = words[Len(words)]
              /\ IsSubsequence(words, result)

\* C10 witness: two synonyms were inserted.
C10_Witness ==
    /\ fn = "random_insertion" /\ pc = "done"
    /\ Len(result) = Len(words) + 2

=============================================================================
